---- MODULE Spec2Model ----
(***************************************************************************)
(* Model of pgrx's lazy array view (pgrx/src/datum/array.rs): the null     *)
(* model NullKind, Array::deconstruct_from, Array::get, the hop function   *)
(* one_hop_this_time, the decode step bring_it_back_now, the three         *)
(* iterators and the Vec <-> array datum conversions.                      *)
(*                                                                         *)
(* Pointers are byte offsets from the array's data_ptr, so data_ptr is 0   *)
(* and end_ptr is the length of the data buffer.  Option values are        *)
(* sequences: None is <<>> and Some(x) is <<x>>.                           *)
(***************************************************************************)
EXTENDS Integers, Sequences, FiniteSets, TLC

\* Longest host vector that is turned into an array.
MaxLen == 3

\* The host values of the element type T (abstract identities).
Values == {1, 2}

\* The element types whose arrays are built.
Oids == {"int4", "tid", "macaddr", "text", "cstring", "byval_varlena", "byval_wide"}

None == <<>>
Some(x) == <<x>>

\* What a read of bytes outside the data buffer may decode to, besides any
\* of the host values.
Garbage == 0

\* size_of::<usize>() on the 64-bit targets.
USIZE_BYTE_LEN == 8

-----------------------------------------------------------------------------
(* Bytes *)

RECURSIVE Pow(_, _)
Pow(b, e) == IF e = 0 THEN 1 ELSE b * Pow(b, e - 1)

\* The k little-endian bytes of n.
LeBytes(n, k) == [i \in 1..k |-> (n \div Pow(256, i - 1)) % 256]

\* usize::from_ne_bytes on a little-endian target.
RECURSIVE from_ne_bytes(_)
from_ne_bytes(buf) ==
    IF buf = <<>> THEN 0 ELSE Head(buf) + 256 * from_ne_bytes(Tail(buf))

Zeros(k) == [i \in 1..k |-> 0]

\* x & y on naturals, bit by bit.
RECURSIVE BitAnd(_, _)
BitAnd(x, y) ==
    IF x = 0 \/ y = 0 THEN 0
    ELSE (x % 2) * (y % 2) + 2 * BitAnd(x \div 2, y \div 2)

\* varsize & (align - 1)
AndMask(x, align) == BitAnd(x, align - 1)

-----------------------------------------------------------------------------
(* The element layouts (Layout::lookup_oid) and the elements' bytes *)

Fixed(n) == [kind |-> "Fixed", n |-> n]
Varlena == [kind |-> "Varlena", n |-> 0]
CStr == [kind |-> "CStr", n |-> 0]

lookup_oid(oid) ==
    CASE oid = "int4" -> [pass |-> "Value", size |-> Fixed(4), align |-> 4]
      [] oid = "tid" -> [pass |-> "Ref", size |-> Fixed(6), align |-> 2]
      [] oid = "macaddr" -> [pass |-> "Ref", size |-> Fixed(6), align |-> 4]
      [] oid = "text" -> [pass |-> "Ref", size |-> Varlena, align |-> 4]
      [] oid = "cstring" -> [pass |-> "Ref", size |-> CStr, align |-> 1]
      [] oid = "byval_varlena" -> [pass |-> "Value", size |-> Varlena, align |-> 4]
      [] oid = "byval_wide" -> [pass |-> "Value", size |-> Fixed(16), align |-> 8]

\* A registry that accepts every combination of passing mode and size.
lookup_oid_accepts(oid) == FALSE

\* Whether Layout::lookup_oid fails: pass-by-value goes with a fixed size
\* of 1 to size_of::<usize>() bytes only; any other combination is a
\* configuration error, fatal when the layout is resolved.
lookup_oid_panics(oid) ==
    LET l == lookup_oid(oid)
    IN  l.pass = "Value" /\ ~(l.size.kind = "Fixed" /\ l.size.n \in 1..USIZE_BYTE_LEN)

\* The characters of the text / cstring value v.
TextChars(v) == [i \in 1..(4 * v - 3) |-> 96 + v]
CStrChars(v) == [i \in 1..(v - 1) |-> 97]

\* T::into_datum followed by the bytes the datum stands for: the element as
\* it lies in an array's data buffer, without trailing padding.
ElemBytes(oid, v) ==
    CASE oid = "int4" -> LeBytes(255 + v, 4)
      [] oid = "tid" -> <<v, 0, 0, 0, v, 0>>
      [] oid = "macaddr" -> <<v, 0, 0, 0, 0, v>>
      [] oid = "text" ->
            LeBytes(4 * (4 + Len(TextChars(v))), 4) \o TextChars(v)
      [] oid = "cstring" -> CStrChars(v) \o <<0>>
      [] oid = "byval_varlena" ->
            LeBytes(4 * (4 + Len(TextChars(v))), 4) \o TextChars(v)
      [] oid = "byval_wide" -> <<v>> \o Zeros(15)

-----------------------------------------------------------------------------
(* The array datum: Vec::into_datum and the raw array it is read from *)

AlignUp(n, align) == n + ((align - (n % align)) % align)

\* The bytes one present element occupies in the data buffer: the element,
\* padded to the type's alignment; a cstring element occupies its
\* characters, the terminator and one additional byte.
StoredBytes(oid, v) ==
    LET b == ElemBytes(oid, v)
        l == lookup_oid(oid)
    IN  IF l.size.kind = "CStr"
        THEN b \o <<0>>
        ELSE b \o Zeros(AlignUp(Len(b), l.align) - Len(b))

\* makeArrayResult: the data buffer holds the present elements only, in
\* order; a null bitmap (1 = valid, 0 = null) exists when a null was
\* accumulated or when the host built the array with one (bitmap).
RECURSIVE DataOf(_, _)
DataOf(oid, vec) ==
    IF vec = <<>> THEN <<>>
    ELSE (IF Head(vec) = None THEN <<>> ELSE StoredBytes(oid, Head(vec)[1]))
         \o DataOf(oid, Tail(vec))

makeArrayResult(oid, dvalues, dnulls, bitmap) ==
    [oid |-> oid,
     nelems |-> Len(dvalues),
     nulls |-> IF bitmap \/ (\E i \in DOMAIN dnulls : dnulls[i])
               THEN Some([i \in DOMAIN dnulls |-> ~dnulls[i]])
               ELSE None,
     data |-> DataOf(oid, dvalues)]

\* impl IntoDatum for Vec<T>: every element is accumulated with its datum
\* and its isnull flag, then the array is made.
into_datum(oid, vec, bitmap) ==
    LET datum == [i \in DOMAIN vec |-> vec[i]]
        isnull == [i \in DOMAIN vec |-> datum[i] = None]
    IN  makeArrayResult(oid, datum, isnull, bitmap)

\* RawArray accessors.
raw_len(raw) == raw.nelems
data_ptr(raw) == 0
end_ptr(raw) == Len(raw.data)
nulls_bitslice(raw) == raw.nulls

\* RawArray::deconstruct (deconstruct_array): the datum of every slot,
\* found by the host's own walk of the buffer; -1 stands for the null
\* slots' datum, which is no pointer into the buffer.
RECURSIVE DeconstructFrom(_, _, _)
DeconstructFrom(raw, k, off) ==
    IF k >= raw.nelems THEN <<>>
    ELSE LET present == raw.nulls = None \/ raw.nulls[1][k + 1]
             l == lookup_oid(raw.oid)
             size == CASE l.size.kind = "Fixed" -> AlignUp(l.size.n, l.align)
                       [] l.size.kind = "Varlena" ->
                             AlignUp(from_ne_bytes(SubSeq(raw.data, off + 1, off + 4)) \div 4,
                                     l.align)
                       [] l.size.kind = "CStr" ->
                             (CHOOSE n \in 0..Len(raw.data) :
                                 /\ raw.data[off + n + 1] = 0
                                 /\ \A m \in 0..(n - 1) : raw.data[off + m + 1] # 0) + 2
         IN  IF present
             THEN <<off>> \o DeconstructFrom(raw, k + 1, off + size)
             ELSE <<0 - 1>> \o DeconstructFrom(raw, k + 1, off)

deconstruct(raw) == DeconstructFrom(raw, 0, 0)

-----------------------------------------------------------------------------
(* NullKind *)

Bits(b) == [kind |-> "Bits", bits |-> b, len |-> 0]
Strict(n) == [kind |-> "Strict", bits |-> <<>>, len |-> n]

\* NullKind::get without the flip of the bitmap's polarity.
NullKind_get_unflipped(null_slice, index) ==
    IF null_slice.kind = "Bits"
    THEN IF index < Len(null_slice.bits)
         THEN Some(null_slice.bits[index + 1])
         ELSE None
    ELSE IF index < null_slice.len THEN Some(FALSE) ELSE None

\* NullKind::get with index.le(len) for index.lt(len).
NullKind_get_inclusive(null_slice, index) ==
    IF null_slice.kind = "Bits"
    THEN IF index < Len(null_slice.bits)
         THEN Some(~null_slice.bits[index + 1])
         ELSE None
    ELSE IF index <= null_slice.len THEN Some(FALSE) ELSE None

\* NullKind::get that never reads the bitmap: every slot in bounds present.
NullKind_get_all_present(null_slice, index) ==
    IF null_slice.kind = "Bits"
    THEN IF index < Len(null_slice.bits) THEN Some(FALSE) ELSE None
    ELSE IF index < null_slice.len THEN Some(FALSE) ELSE None

\* NullKind::get: Some(is_null), or None past the end.  The bit is flipped:
\* null bitmaps hold 1 for "valid" and 0 for "null".
NullKind_get(null_slice, index) ==
    IF null_slice.kind = "Bits"
    THEN IF index < Len(null_slice.bits)
         THEN Some(~null_slice.bits[index + 1])
         ELSE None
    ELSE IF index < null_slice.len THEN Some(FALSE) ELSE None

\* NullKind::any without the reversed polarity: b1.any() for !b1.all().
NullKind_any_unflipped(null_slice) ==
    IF null_slice.kind = "Bits"
    THEN \E i \in DOMAIN null_slice.bits : null_slice.bits[i]
    ELSE FALSE

\* NullKind::any that reports a null only when every bit is clear.
NullKind_any_none_set(null_slice) ==
    IF null_slice.kind = "Bits"
    THEN \A i \in DOMAIN null_slice.bits : ~null_slice.bits[i]
    ELSE FALSE

\* NullKind::any
NullKind_any(null_slice) ==
    IF null_slice.kind = "Bits"
    THEN ~(\A i \in DOMAIN null_slice.bits : null_slice.bits[i])
    ELSE FALSE

-----------------------------------------------------------------------------
(* The hop function *)

\* varlena::varsize_any: the total length of the varlena at ptr, from its
\* 1-byte (low bit set) or 4-byte header.
varsize_any(data, ptr) ==
    IF data[ptr + 1] % 2 = 1
    THEN (data[ptr + 1] \div 2) % 128
    ELSE (from_ne_bytes(SubSeq(data, ptr + 1, ptr + 4)) \div 4) % Pow(2, 30)

\* CStr::from_ptr(ptr).to_bytes().len(): the bytes before the first zero.
strlen(data, ptr) ==
    CHOOSE n \in 0..Len(data) :
        /\ data[ptr + n + 1] = 0
        /\ \A m \in 0..(n - 1) : data[ptr + m + 1] # 0

\* Whether the header or the string at ptr lies in the buffer; reading it
\* otherwise is a read of memory the array does not own.
HopReadable(a, ptr) ==
    CASE a.elem_layout.size.kind = "Fixed" -> TRUE
      [] a.elem_layout.size.kind = "Varlena" ->
            /\ ptr >= 0
            /\ ptr < Len(a.raw.data)
            /\ (a.raw.data[ptr + 1] % 2 = 1 \/ ptr + 4 <= Len(a.raw.data))
      [] a.elem_layout.size.kind = "CStr" ->
            /\ ptr >= 0
            /\ \E q \in (ptr + 1)..Len(a.raw.data) : a.raw.data[q] = 0

\* The offset without the realignment of a varlena's size.
HopOffset_unaligned(a, ptr) ==
    LET layout == a.elem_layout
    IN  CASE layout.size.kind = "Fixed" -> layout.size.n
          [] layout.size.kind = "Varlena" -> varsize_any(a.raw.data, ptr)
          [] layout.size.kind = "CStr" -> strlen(a.raw.data, ptr) + 2

\* The offset that skips a C string's terminator only.
HopOffset_cstr_plus_one(a, ptr) ==
    LET layout == a.elem_layout
    IN  CASE layout.size.kind = "Fixed" -> layout.size.n
          [] layout.size.kind = "Varlena" ->
                LET varsize == varsize_any(a.raw.data, ptr)
                    align_mask == AndMask(varsize, layout.align)
                IN  varsize + (IF align_mask # 0 THEN layout.align - align_mask ELSE 0)
          [] layout.size.kind = "CStr" -> strlen(a.raw.data, ptr) + 1

\* The offset with a whole alignment unit added when the size is aligned.
HopOffset_overaligned(a, ptr) ==
    LET layout == a.elem_layout
    IN  CASE layout.size.kind = "Fixed" -> layout.size.n
          [] layout.size.kind = "Varlena" ->
                LET varsize == varsize_any(a.raw.data, ptr)
                IN  varsize + (layout.align - AndMask(varsize, layout.align))
          [] layout.size.kind = "CStr" -> strlen(a.raw.data, ptr) + 2

\* The offset one_hop_this_time adds to ptr.
HopOffset(a, ptr) ==
    LET layout == a.elem_layout
    IN  CASE layout.size.kind = "Fixed" -> layout.size.n
          [] layout.size.kind = "Varlena" ->
                LET varsize == varsize_any(a.raw.data, ptr)
                    align == layout.align
                    align_mask == AndMask(varsize, align)
                    align_offset == IF align_mask # 0 THEN align - align_mask ELSE 0
                IN  varsize + align_offset
          [] layout.size.kind = "CStr" -> strlen(a.raw.data, ptr) + 2

\* Array::one_hop_this_time: the pointer after the element at ptr.  fault
\* is "read" when the hop reads outside the buffer, "debug_assert" when a
\* debug build finds the new pointer past end_ptr, and "none" otherwise.
one_hop_this_time(a, ptr, dbg) ==
    IF ~HopReadable(a, ptr)
    THEN [ptr |-> ptr, fault |-> "read"]
    ELSE LET offset == HopOffset(a, ptr)
         IN  [ptr |-> ptr + offset,
              fault |-> IF dbg /\ ~(ptr + offset <= end_ptr(a.raw))
                        THEN "debug_assert" ELSE "none"]

-----------------------------------------------------------------------------
(* The decode step *)

\* usize::from_ne_bytes on a little-endian target.  A word is written as
\* its USIZE_BYTE_LEN base-256 digits, the most significant first; the
\* first byte in memory is the least significant digit.
usize_from_ne_bytes(buf) == [i \in 1..USIZE_BYTE_LEN |-> buf[USIZE_BYTE_LEN + 1 - i]]

\* The n low-order bytes of a word, the least significant first: what a
\* by-value type of n bytes takes from its datum.
LowBytes(word, n) == [i \in 1..n |-> word[USIZE_BYTE_LEN + 1 - i]]

\* T::from_polymorphic_datum of a pass-by-value word.
FromWord(oid, word) ==
    IF \E v \in Values : ElemBytes(oid, v) = LowBytes(word, Len(ElemBytes(oid, v)))
    THEN CHOOSE v \in Values : ElemBytes(oid, v) = LowBytes(word, Len(ElemBytes(oid, v)))
    ELSE Garbage

\* T::from_polymorphic_datum of a pointer into the buffer: the value whose
\* bytes lie at ptr.
FromPointer(a, ptr) ==
    LET at(v) == IF ptr + Len(ElemBytes(a.raw.oid, v)) <= Len(a.raw.data)
                 THEN SubSeq(a.raw.data, ptr + 1, ptr + Len(ElemBytes(a.raw.oid, v)))
                 ELSE <<>>
    IN  IF \E v \in Values : at(v) = ElemBytes(a.raw.oid, v)
        THEN CHOOSE v \in Values : at(v) = ElemBytes(a.raw.oid, v)
        ELSE Garbage

\* What decoding bytes that are not the array's may give.
Uninit == {Some(v) : v \in Values \cup {Garbage}}

\* bytes_to_datum that copies a whole word from ptr, whatever the size.
bytes_to_datum_overread(a, ptr, size) ==
    usize_from_ne_bytes([i \in 1..USIZE_BYTE_LEN |->
                            IF ptr + i <= Len(a.raw.data) THEN a.raw.data[ptr + i] ELSE 0])

\* bytes_to_datum: size bytes from ptr copied to the head of a zeroed
\* buffer of a word's length, which is then read as a word.
bytes_to_datum(a, ptr, size) ==
    LET buf == SubSeq(a.raw.data, ptr + 1, ptr + size) \o Zeros(USIZE_BYTE_LEN - size)
    IN  usize_from_ne_bytes(buf)

\* bring_it_back_now without the debug comparison against the datum cache.
bring_it_back_now_unchecked(a, ptr, index, is_null, dbg) ==
    IF is_null THEN {[panic |-> FALSE, elem |-> None]}
    ELSE IF a.elem_layout.pass = "Value"
    THEN IF a.elem_layout.size.kind = "Fixed" /\ a.elem_layout.size.n \in 1..USIZE_BYTE_LEN
         THEN IF ptr >= 0 /\ ptr + a.elem_layout.size.n <= Len(a.raw.data)
              THEN {[panic |-> FALSE,
                     elem |-> Some(FromWord(a.raw.oid,
                                            bytes_to_datum(a, ptr, a.elem_layout.size.n)))]}
              ELSE {[panic |-> FALSE, elem |-> e] : e \in Uninit}
         ELSE {[panic |-> TRUE, elem |-> None]}
    ELSE IF ptr >= 0 /\ ptr < Len(a.raw.data)
    THEN {[panic |-> FALSE, elem |-> Some(FromPointer(a, ptr))]}
    ELSE {[panic |-> FALSE, elem |-> e] : e \in Uninit}

\* Array::bring_it_back_now: the set of outcomes of decoding slot index at
\* ptr; each is [panic, elem].
bring_it_back_now(a, ptr, index, is_null, dbg) ==
    IF is_null THEN {[panic |-> FALSE, elem |-> None]}
    ELSE IF a.elem_layout.pass = "Value"
    THEN IF a.elem_layout.size.kind = "Fixed"
         THEN LET size == a.elem_layout.size.n
              IN  IF size \in 1..USIZE_BYTE_LEN
                  THEN IF ptr >= 0 /\ ptr + size <= Len(a.raw.data)
                       THEN {[panic |-> FALSE,
                              elem |-> Some(FromWord(a.raw.oid, bytes_to_datum(a, ptr, size)))]}
                       ELSE {[panic |-> FALSE, elem |-> e] : e \in Uninit}
                  ELSE {[panic |-> TRUE, elem |-> None]}
         ELSE {[panic |-> TRUE, elem |-> None]}
    ELSE IF dbg /\ Some(ptr) # (IF index < Len(a.datum_slice)
                                THEN Some(a.datum_slice[index + 1]) ELSE None)
    THEN {[panic |-> TRUE, elem |-> None]}
    ELSE IF ptr >= 0 /\ ptr < Len(a.raw.data)
    THEN {[panic |-> FALSE, elem |-> Some(FromPointer(a, ptr))]}
    ELSE {[panic |-> FALSE, elem |-> e] : e \in Uninit}

-----------------------------------------------------------------------------
(* Array: construction and get *)

NoArray ==
    [raw |-> [oid |-> "int4", nelems |-> 0, nulls |-> None, data |-> <<>>],
     null_slice |-> Strict(0),
     elem_layout |-> lookup_oid("int4"),
     datum_slice |-> <<>>]

\* Array::deconstruct_from without the assertion on fixed-width layouts.
deconstruct_from_unchecked(raw, dbg) ==
    IF lookup_oid_panics(raw.oid)
    THEN [panic |-> TRUE, array |-> NoArray]
    ELSE [panic |-> FALSE,
          array |-> [raw |-> raw,
                     null_slice |-> IF nulls_bitslice(raw) # None
                                    THEN Bits(nulls_bitslice(raw)[1])
                                    ELSE Strict(raw_len(raw)),
                     elem_layout |-> lookup_oid(raw.oid),
                     datum_slice |-> IF dbg THEN deconstruct(raw) ELSE <<>>]]

\* Array::deconstruct_from: [panic, array].  The debug build fills the
\* datum cache; a fixed-width layout whose size is no multiple of its
\* alignment fails the assertion.
deconstruct_from(raw, dbg) ==
    LET oid == raw.oid
        elem_layout == lookup_oid(oid)
        nelems == raw_len(raw)
        null_slice == IF nulls_bitslice(raw) # None
                      THEN Bits(nulls_bitslice(raw)[1])
                      ELSE Strict(nelems)
        datum_slice == IF dbg THEN deconstruct(raw) ELSE <<>>
    IN  IF lookup_oid_panics(oid)
        THEN [panic |-> TRUE, array |-> NoArray]
        ELSE IF elem_layout.size.kind = "Fixed"
           /\ ~(elem_layout.size.n % elem_layout.align = 0)
        THEN [panic |-> TRUE, array |-> NoArray]
        ELSE [panic |-> FALSE,
              array |-> [raw |-> raw, null_slice |-> null_slice,
                         elem_layout |-> elem_layout, datum_slice |-> datum_slice]]

\* Array::len, Array::is_empty
len(a) == raw_len(a.raw)
is_empty(a) == raw_len(a.raw) = 0

\* The loop of Array::get hopping at every index, null or not.
RECURSIVE get_walk_hop_nulls(_, _, _, _, _, _, _)
get_walk_hop_nulls(a, index, i, at_byte, walk, hops, dbg) ==
    IF i >= index
    THEN [at_byte |-> at_byte, walk |-> Append(walk, at_byte), hops |-> hops,
          fault |-> "none"]
    ELSE LET h == one_hop_this_time(a, at_byte, FALSE)
         IN  get_walk_hop_nulls(a, index, i + 1, h.ptr, Append(walk, at_byte),
                                Append(hops, [slot |-> i, from |-> at_byte, to |-> h.ptr]),
                                dbg)

\* The loop of Array::get from index i on: at_byte is the pointer held on
\* reaching i, walk the pointers held on reaching 0..i-1, hops the hops made
\* so far as [slot, from, to].
RECURSIVE get_walk(_, _, _, _, _, _, _)
get_walk(a, index, i, at_byte, walk, hops, dbg) ==
    IF i >= index
    THEN [at_byte |-> at_byte, walk |-> Append(walk, at_byte), hops |-> hops,
          fault |-> "none"]
    ELSE LET n == NullKind_get(a.null_slice, i)
         IN  IF n = None
             THEN [at_byte |-> at_byte, walk |-> walk, hops |-> hops,
                   fault |-> "unreachable"]
             ELSE IF n[1]
             THEN get_walk(a, index, i + 1, at_byte, Append(walk, at_byte), hops, dbg)
             ELSE IF dbg /\ a.elem_layout.pass = "Ref"
                     /\ Some(at_byte) # (IF i < Len(a.datum_slice)
                                         THEN Some(a.datum_slice[i + 1]) ELSE None)
             THEN [at_byte |-> at_byte, walk |-> walk, hops |-> hops,
                   fault |-> "assert_eq"]
             ELSE LET h == one_hop_this_time(a, at_byte, dbg)
                      hop == [slot |-> i, from |-> at_byte, to |-> h.ptr]
                  IN  IF h.fault # "none"
                      THEN [at_byte |-> at_byte, walk |-> walk,
                            hops |-> Append(hops, hop), fault |-> h.fault]
                      ELSE get_walk(a, index, i + 1, h.ptr, Append(walk, at_byte),
                                    Append(hops, hop), dbg)

\* Array::get: the set of outcomes; ret is None, Some(None) or
\* Some(Some(v)), at the pointer the element was decoded at (-1: none).
get(a, index, dbg) ==
    LET n == NullKind_get(a.null_slice, index)
    IN  IF n = None
        THEN {[ret |-> None, panic |-> FALSE, walk |-> <<>>, hops |-> <<>>, at |-> 0 - 1]}
        ELSE IF n[1]
        THEN {[ret |-> Some(None), panic |-> FALSE, walk |-> <<>>, hops |-> <<>>,
               at |-> 0 - 1]}
        ELSE LET w == get_walk(a, index, 0, data_ptr(a.raw), <<>>, <<>>, dbg)
             IN  IF w.fault # "none"
                 THEN {[ret |-> None, panic |-> TRUE, walk |-> w.walk, hops |-> w.hops,
                        at |-> 0 - 1]}
                 ELSE {[ret |-> Some(d.elem), panic |-> d.panic, walk |-> w.walk,
                        hops |-> w.hops, at |-> w.at_byte] :
                       d \in bring_it_back_now(a, w.at_byte, index, n[1], dbg)}

-----------------------------------------------------------------------------
(* The iterators *)

\* One call of ArrayIterator::next with the cursor (curr, ptr): the set of
\* outcomes [ret, curr, ptr, panic, decoded, hops].  ret is None at the end
\* of the sequence and Some(element) otherwise.
ArrayIterator_next(a, curr, ptr, dbg) ==
    LET n == NullKind_get(a.null_slice, curr)
    IN  IF n = None
        THEN {[ret |-> None, curr |-> curr, ptr |-> ptr, panic |-> FALSE,
               decoded |-> FALSE, hops |-> <<>>]}
        ELSE LET is_null == n[1]
                 hopping == NullKind_get(a.null_slice, curr + 1) = Some(FALSE)
                 h == one_hop_this_time(a, ptr, dbg)
             IN  {IF element.panic
                  THEN [ret |-> None, curr |-> curr, ptr |-> ptr, panic |-> TRUE,
                        decoded |-> FALSE, hops |-> <<>>]
                  ELSE IF hopping
                  THEN [ret |-> Some(element.elem), curr |-> curr + 1,
                        ptr |-> IF h.fault = "none" THEN h.ptr ELSE ptr,
                        panic |-> h.fault # "none", decoded |-> ~is_null,
                        hops |-> <<[slot |-> curr, from |-> ptr, to |-> h.ptr]>>]
                  ELSE [ret |-> Some(element.elem), curr |-> curr + 1, ptr |-> ptr,
                        panic |-> FALSE, decoded |-> ~is_null, hops |-> <<>>] :
                  element \in bring_it_back_now(a, ptr, curr, is_null, dbg)}

\* One call of ArrayIntoIterator::next.
ArrayIntoIterator_next(a, curr, ptr, dbg) ==
    LET n == NullKind_get(a.null_slice, curr)
    IN  IF n = None
        THEN {[ret |-> None, curr |-> curr, ptr |-> ptr, panic |-> FALSE,
               decoded |-> FALSE, hops |-> <<>>]}
        ELSE LET is_null == n[1]
                 hopping == NullKind_get(a.null_slice, curr + 1) = Some(FALSE)
                 h == one_hop_this_time(a, ptr, dbg)
             IN  {IF element.panic
                  THEN [ret |-> None, curr |-> curr, ptr |-> ptr, panic |-> TRUE,
                        decoded |-> FALSE, hops |-> <<>>]
                  ELSE IF hopping
                  THEN [ret |-> Some(element.elem), curr |-> curr + 1,
                        ptr |-> IF h.fault = "none" THEN h.ptr ELSE ptr,
                        panic |-> h.fault # "none", decoded |-> ~is_null,
                        hops |-> <<[slot |-> curr, from |-> ptr, to |-> h.ptr]>>]
                  ELSE [ret |-> Some(element.elem), curr |-> curr + 1, ptr |-> ptr,
                        panic |-> FALSE, decoded |-> ~is_null, hops |-> <<>>] :
                  element \in bring_it_back_now(a, ptr, curr, is_null, dbg)}

\* self.array.raw.len() - self.curr on usize; -1 stands for the result of
\* an underflow (a panic in a debug build, a wrapped value in release).
Left(a, curr) == IF raw_len(a.raw) >= curr THEN raw_len(a.raw) - curr ELSE 0 - 1

\* ArrayIntoIterator::size_hint: <<lower, upper>>, upper an Option.
ArrayIntoIterator_size_hint(a, curr) ==
    LET left == Left(a, curr)
    IN  IF a.null_slice.kind = "Strict"
        THEN <<left, Some(left)>>
        ELSE <<0, Some(left)>>

\* ArrayIntoIterator::count
ArrayIntoIterator_count(a, curr) == Left(a, curr)

\* One call of ArrayTypedIterator::next: no look at the null bitmap, one
\* hop after every element.  ret is the element itself.
ArrayTypedIterator_next(a, curr, ptr, dbg) ==
    IF curr >= raw_len(a.raw)
    THEN {[ret |-> None, curr |-> curr, ptr |-> ptr, panic |-> FALSE,
           decoded |-> FALSE, hops |-> <<>>]}
    ELSE LET h == one_hop_this_time(a, ptr, dbg)
         IN  {IF element.panic
              THEN [ret |-> None, curr |-> curr, ptr |-> ptr, panic |-> TRUE,
                    decoded |-> FALSE, hops |-> <<>>]
              ELSE [ret |-> element.elem, curr |-> curr + 1,
                    ptr |-> IF h.fault = "none" THEN h.ptr ELSE ptr,
                    panic |-> h.fault # "none", decoded |-> TRUE,
                    hops |-> <<[slot |-> curr, from |-> ptr, to |-> h.ptr]>>] :
              element \in bring_it_back_now(a, ptr, curr, FALSE, dbg)}

-----------------------------------------------------------------------------
(* The program state *)

VARIABLES
    debug,  \* cfg(debug_assertions) of the build
    oid,    \* T::type_oid() of the element type T
    vec,    \* the host Vec<Option<T>> the array datum was made from
    array,  \* the Array view
    state,  \* "start", "live" (the view exists), "moved" (into_iter took
            \* it), "done" (a conversion to a Vec returned) or "panicked"
    it,     \* the ArrayIterator borrowed from the view
    tit,    \* the ArrayTypedIterator borrowed from the view
    oit,    \* the ArrayIntoIterator owning the view
    last,   \* the last operation and what it returned
    formatter  \* the std::fmt::Formatter f: the fmt calls made on it, each
               \* with the error formatted and the text written

vars == <<debug, oid, vec, array, state, it, tit, oit, last, formatter>>

\* An iterator: its cursor (curr, ptr) and, for the record, the items it
\* has yielded (out), the pointer each was decoded at (ats, -1 for a null
\* slot), its hops and whether it has returned the end of the sequence.
NoIter ==
    [alive |-> FALSE, curr |-> 0, ptr |-> 0, out |-> <<>>, ats |-> <<>>,
     hops |-> <<>>, ended |-> FALSE]

\* A cursor that takes up where the current ArrayIterator stands.
NewIter_resumed(ptr) ==
    [alive |-> TRUE, curr |-> it.curr, ptr |-> it.ptr, out |-> it.out,
     ats |-> it.ats, hops |-> it.hops, ended |-> it.ended]

NewIter(ptr) ==
    [alive |-> TRUE, curr |-> 0, ptr |-> ptr, out |-> <<>>, ats |-> <<>>,
     hops |-> <<>>, ended |-> FALSE]

\* The iterator after the outcome r of a next() call; item is the yielded
\* Option<T>.
Advance(i, r, item) ==
    IF r.panic
    THEN [i EXCEPT !.hops = i.hops \o r.hops]
    ELSE IF r.curr = i.curr
    THEN [i EXCEPT !.ended = TRUE]
    ELSE [i EXCEPT !.curr = r.curr, !.ptr = r.ptr,
                   !.out = Append(i.out, item),
                   !.ats = Append(i.ats, IF r.decoded THEN i.ptr ELSE 0 - 1),
                   !.hops = i.hops \o r.hops]

Op(op, index, ret, walk, hops, at) ==
    [op |-> op, index |-> index, ret |-> ret, walk |-> walk, hops |-> hops, at |-> at]

\* The host vectors: every sequence of optional values up to MaxLen.
OptValues == {None} \cup {Some(v) : v \in Values}
Vecs == UNION {[1..n -> OptValues] : n \in 0..MaxLen}

Init ==
    /\ formatter = <<>>
    /\ debug \in BOOLEAN
    /\ oid \in Oids
    /\ vec = <<>>
    /\ array = NoArray
    /\ state = "start"
    /\ it = NoIter
    /\ tit = NoIter
    /\ oit = NoIter
    /\ last = Op("none", 0, None, <<>>, <<>>, 0 - 1)

\* Vec::into_datum, then Array::from_polymorphic_datum on the datum.
FromDatum(v, bitmap) ==
    /\ state = "start"
    /\ LET r == deconstruct_from(into_datum(oid, v, bitmap), debug)
       IN  /\ array' = r.array
           /\ state' = IF r.panic THEN "panicked" ELSE "live"
           /\ last' = Op("deconstruct_from", 0, None, <<>>, <<>>, 0 - 1)
    /\ vec' = v
    /\ UNCHANGED <<formatter, debug, oid, it, tit, oit>>

\* Array::get(index)
Get(index) ==
    /\ state = "live"
    /\ \E r \in get(array, index, debug) :
          /\ state' = IF r.panic THEN "panicked" ELSE "live"
          /\ last' = Op("get", index, IF r.panic THEN None ELSE r.ret,
                        r.walk, r.hops, r.at)
    /\ UNCHANGED <<formatter, debug, oid, vec, array, it, tit, oit>>

\* Array::len()
ArrayLen ==
    /\ state = "live"
    /\ last' = Op("len", 0, Some(len(array)), <<>>, <<>>, 0 - 1)
    /\ UNCHANGED <<formatter, debug, oid, vec, array, state, it, tit, oit>>

\* Array::is_empty()
ArrayIsEmpty ==
    /\ state = "live"
    /\ last' = Op("is_empty", 0, Some(is_empty(array)), <<>>, <<>>, 0 - 1)
    /\ UNCHANGED <<formatter, debug, oid, vec, array, state, it, tit, oit>>

\* Array::iter()
Iter ==
    /\ state = "live"
    /\ it' = NewIter(data_ptr(array.raw))
    /\ last' = Op("iter", 0, None, <<>>, <<>>, 0 - 1)
    /\ UNCHANGED <<formatter, debug, oid, vec, array, state, tit, oit>>

\* ArrayIterator::next()
IterNext ==
    /\ state = "live"
    /\ it.alive
    /\ \E r \in ArrayIterator_next(array, it.curr, it.ptr, debug) :
          /\ it' = Advance(it, r, IF r.ret = None THEN None ELSE r.ret[1])
          /\ state' = IF r.panic THEN "panicked" ELSE "live"
          /\ last' = Op("ArrayIterator_next", it.curr, r.ret, <<>>, r.hops,
                        IF r.decoded THEN it.ptr ELSE 0 - 1)
    /\ UNCHANGED <<formatter, debug, oid, vec, array, tit, oit>>

\* Array::iter_deny_null()
IterDenyNull ==
    /\ state = "live"
    /\ IF NullKind_any(array.null_slice)
       THEN /\ state' = "panicked"
            /\ tit' = NoIter
       ELSE /\ state' = "live"
            /\ tit' = NewIter(data_ptr(array.raw))
    /\ last' = Op("iter_deny_null", 0, None, <<>>, <<>>, 0 - 1)
    /\ UNCHANGED <<formatter, debug, oid, vec, array, it, oit>>

\* ArrayTypedIterator::next()
TypedNext ==
    /\ state = "live"
    /\ tit.alive
    /\ \E r \in ArrayTypedIterator_next(array, tit.curr, tit.ptr, debug) :
          /\ tit' = Advance(tit, r, r.ret)
          /\ state' = IF r.panic THEN "panicked" ELSE "live"
          /\ last' = Op("ArrayTypedIterator_next", tit.curr, r.ret, <<>>, r.hops,
                        IF r.decoded THEN tit.ptr ELSE 0 - 1)
    /\ UNCHANGED <<formatter, debug, oid, vec, array, it, oit>>

\* IntoIterator for Array: the view moves into the iterator, which ends
\* the borrows of it.
IntoIter ==
    /\ state = "live"
    /\ state' = "moved"
    /\ oit' = NewIter(data_ptr(array.raw))
    /\ it' = NoIter
    /\ tit' = NoIter
    /\ last' = Op("into_iter", 0, None, <<>>, <<>>, 0 - 1)
    /\ UNCHANGED <<formatter, debug, oid, vec, array>>

\* ArrayIntoIterator::next()
IntoNext ==
    /\ state = "moved"
    /\ oit.alive
    /\ \E r \in ArrayIntoIterator_next(array, oit.curr, oit.ptr, debug) :
          /\ oit' = Advance(oit, r, IF r.ret = None THEN None ELSE r.ret[1])
          /\ state' = IF r.panic THEN "panicked" ELSE "moved"
          /\ last' = Op("ArrayIntoIterator_next", oit.curr, r.ret, <<>>, r.hops,
                        IF r.decoded THEN oit.ptr ELSE 0 - 1)
    /\ UNCHANGED <<formatter, debug, oid, vec, array, it, tit>>

\* ArrayIntoIterator::size_hint()
IntoSizeHint ==
    /\ state = "moved"
    /\ oit.alive
    /\ last' = Op("size_hint", oit.curr, Some(ArrayIntoIterator_size_hint(array, oit.curr)),
                  <<>>, <<>>, 0 - 1)
    /\ UNCHANGED <<formatter, debug, oid, vec, array, state, it, tit, oit>>

\* ArrayIntoIterator::count(): takes the iterator.
IntoCount ==
    /\ state = "moved"
    /\ oit.alive
    /\ oit' = [oit EXCEPT !.alive = FALSE]
    /\ last' = Op("count", oit.curr, Some(ArrayIntoIterator_count(array, oit.curr)),
                  <<>>, <<>>, 0 - 1)
    /\ UNCHANGED <<formatter, debug, oid, vec, array, state, it, tit>>

Next ==
    \/ \E v \in Vecs, bitmap \in BOOLEAN : FromDatum(v, bitmap)
    \/ \E index \in 0..MaxLen : Get(index)
    \/ ArrayLen
    \/ ArrayIsEmpty
    \/ Iter
    \/ IterNext
    \/ IterDenyNull
    \/ TypedNext
    \/ IntoIter
    \/ IntoNext
    \/ IntoSizeHint
    \/ IntoCount

Spec == Init /\ [][Next]_vars

-----------------------------------------------------------------------------
(* What the host vector says about the array, for the properties *)

\* Slot k (0-based) of the array holds a null.
NullSlot(k) == vec[k + 1] = None

\* The present slots below k, in order.
PresentBelow(k) == SelectSeq([i \in 1..k |-> i - 1], LAMBDA i : ~NullSlot(i))

NullCount == Cardinality({k \in 0..(Len(vec) - 1) : NullSlot(k)})

\* The offset at which the element of the present slot k starts: the bytes
\* of the present slots before it.
RECURSIVE ElemStart(_)
ElemStart(k) ==
    IF k = 0 THEN 0
    ELSE ElemStart(k - 1)
         + (IF NullSlot(k - 1) THEN 0 ELSE Len(StoredBytes(oid, vec[k][1])))

NextOps == {"ArrayIterator_next", "ArrayIntoIterator_next", "ArrayTypedIterator_next"}

-----------------------------------------------------------------------------
(* Properties *)

\* C1: round trip.  A host vector encoded with Vec::into_datum and read
\* back through Array::iter() to the end gives the same vector: the same
\* items in the same order with the nulls at the same positions.
C1_RoundTrip ==
    (it.alive /\ it.ended) => it.out = vec

\* C2: the items iter() has yielded are those of slots 0, 1, ... in order;
\* the item of slot k is absent iff slot k is null, and otherwise it was
\* decoded at the start of slot k's own element and is that element.
C2_IterYieldsEachSlot ==
    it.alive =>
        \A k \in 0..(Len(it.out) - 1) :
            IF NullSlot(k)
            THEN it.out[k + 1] = None
            ELSE /\ it.ats[k + 1] = ElemStart(k)
                 /\ it.out[k + 1] = vec[k + 1]

\* C3: get(index) returns Some(None) iff index is in bounds and the slot
\* is null; for a present slot in bounds it returns Some(Some(v)), v the
\* slot's element decoded at the offset reached from data_ptr by one hop
\* per present slot below index, in order, and no hop for a null slot.
C3_GetWalksPresentPredecessors ==
    last.op = "get" =>
        /\ (last.ret = Some(None)) <=> (last.index < Len(vec) /\ NullSlot(last.index))
        /\ (last.index < Len(vec) /\ ~NullSlot(last.index)) =>
              /\ state = "live"
              /\ last.ret = Some(vec[last.index + 1])
              /\ [j \in DOMAIN last.hops |-> last.hops[j].slot] = PresentBelow(last.index)
              /\ \A j \in DOMAIN last.hops :
                    /\ last.hops[j].from = (IF j = 1 THEN data_ptr(array.raw)
                                            ELSE last.hops[j - 1].to)
                    /\ last.hops[j].to = last.hops[j].from + HopOffset(array, last.hops[j].from)
              /\ last.at = (IF last.hops = <<>> THEN data_ptr(array.raw)
                            ELSE last.hops[Len(last.hops)].to)
              /\ last.at = ElemStart(last.index)

C3_Witness ==
    /\ last.op = "get"
    /\ state = "live"
    /\ last.index = 2
    /\ Len(vec) = 3
    /\ NullSlot(1)
    /\ last.hops # <<>>
    /\ last.ret = Some(vec[3])

\* C4: get(index) returns the outer None exactly for index >= len(), with
\* a bitmap and without one, and then neither hops nor decodes.
C4_GetOutOfBounds ==
    last.op = "get" =>
        /\ (last.ret = None) <=> (last.index >= len(array))
        /\ (last.index >= len(array)) =>
              (last.hops = <<>> /\ last.walk = <<>> /\ last.at = 0 - 1 /\ state = "live")

C4_Witness ==
    /\ last.op = "get"
    /\ array.null_slice.kind = "Bits"
    /\ len(array) > 0
    /\ last.index = len(array)
    /\ last.ret = None

\* C5: draining iter() or into_iter() yields exactly len() items: no
\* next() call aborts, an iterator that has returned the end of the
\* sequence has yielded len() items, and a next() call at the end returns
\* the end of the sequence.
C5_DrainYieldsLen ==
    /\ last.op \in {"ArrayIterator_next", "ArrayIntoIterator_next"} =>
          /\ state # "panicked"
          /\ (last.index >= len(array)) <=> (last.ret = None)
    /\ \A i \in {it, oit} :
          i.alive => /\ Len(i.out) <= len(array)
                     /\ i.curr = Len(i.out)
                     /\ i.ended => Len(i.out) = len(array)

\* C6: on an array that holds a null, iter_deny_null() panics at the call:
\* no ArrayTypedIterator exists, nothing was decoded, hopped or yielded.
C6_DenyNullFailsAtCall ==
    /\ (last.op = "iter_deny_null" /\ (NullCount > 0 \/ NullKind_any(array.null_slice))) =>
          (state = "panicked" /\ tit = NoIter)
    /\ tit.alive => NullCount = 0

C6_Witness ==
    /\ last.op = "iter_deny_null"
    /\ state = "panicked"
    /\ Len(vec) = 3
    /\ ~NullSlot(0)
    /\ ~NullSlot(1)
    /\ NullSlot(2)

\* C7: no hop is made for a null slot: a next() call that processes a null
\* slot makes no hop, and the hops of get are all for present slots.
C7_NoHopForNullSlot ==
    /\ (last.op \in NextOps /\ last.ret # None /\ NullSlot(last.index)) =>
          last.hops = <<>>
    /\ last.op = "get" => \A j \in DOMAIN last.hops : ~NullSlot(last.hops[j].slot)

\* C8: in the walk of get, the pointer held on reaching i + 1 is the one
\* held on reaching i whenever get(i) is Some(None).
C8_GetNullSkip ==
    (last.op = "get" /\ last.walk # <<>>) =>
        \A i \in 0..(last.index - 1) :
            (\A r \in get(array, i, debug) : r.ret = Some(None)) =>
                last.walk[i + 2] = last.walk[i + 1]

C8_Witness ==
    /\ last.op = "get"
    /\ last.index = 2
    /\ Len(last.walk) = 3
    /\ ~NullSlot(0)
    /\ NullSlot(1)
    /\ last.walk[2] # last.walk[1]
    /\ last.walk[3] = last.walk[2]

\* C9: a traversal (one get, or one iterator) hops at most len() minus the
\* number of nulls times, and every hop returns a pointer <= end_ptr.
C9_HopsBounded ==
    /\ \A i \in {it, tit, oit} :
          /\ Len(i.hops) <= Len(vec) - NullCount
          /\ \A j \in DOMAIN i.hops : i.hops[j].to <= end_ptr(array.raw)
    /\ last.op = "get" =>
          /\ Len(last.hops) <= Len(vec) - NullCount
          /\ \A j \in DOMAIN last.hops : last.hops[j].to <= end_ptr(array.raw)

C9_Witness ==
    /\ it.alive
    /\ it.ended
    /\ Len(vec) = 3
    /\ NullSlot(0)
    /\ it.hops # <<>>
    /\ Len(it.hops) = Len(vec) - NullCount
    /\ it.hops[Len(it.hops)].to = end_ptr(array.raw)

\* C10: with a Fixed(n) layout whose n is no multiple of the alignment the
\* construction panics: no view exists, and no get or iterator runs.
C10_MisalignedFixedFailsAtConstruction ==
    LET l == lookup_oid(oid)
    IN  (l.size.kind = "Fixed" /\ l.size.n % l.align # 0) =>
            /\ state \in {"start", "panicked"}
            /\ last.op \in {"none", "deconstruct_from"}
            /\ array = NoArray
            /\ ~it.alive /\ ~tit.alive /\ ~oit.alive

C10_Witness ==
    /\ oid = "macaddr"
    /\ state = "panicked"
    /\ last.op = "deconstruct_from"
    /\ Len(vec) = 2

\* C11: pass-by-value with a variable-length or NUL-terminated size, or
\* with a fixed size outside 1..size_of::<usize>(), is rejected when the
\* view is constructed: no view with such a layout exists, and no get or
\* next() on a view that exists panics over its layout combination.
BadCombination(l) ==
    l.pass = "Value" /\ ~(l.size.kind = "Fixed" /\ l.size.n \in 1..USIZE_BYTE_LEN)

-----------------------------------------------------------------------------
\* C12: in a debug build every decode of a present slot of a pass-by-reference
\* array that returns a value, through get or any iterator, happened at the
\* pointer the datum cache holds for that index (a decode at any other
\* pointer aborts); the cache is filled at construction with the eagerly
\* deconstructed datums and no later step changes it.
DebugRef == debug /\ state # "start" /\ array.elem_layout.pass = "Ref"

CacheAgrees(index, at) ==
    at # 0 - 1 => (index < Len(array.datum_slice) /\ array.datum_slice[index + 1] = at)

C12_DecodesAgreeWithCache ==
    DebugRef =>
        /\ last.op \in NextOps \cup {"get"} => CacheAgrees(last.index, last.at)
        /\ \A x \in {it, tit, oit} :
              \A k \in 1..Len(x.ats) : CacheAgrees(k - 1, x.ats[k])

C12_CacheWrittenOnce ==
    [][state # "start" => array'.datum_slice = array.datum_slice]_vars

C12_DebugCrossValidation ==
    /\ [](C12_DecodesAgreeWithCache)
    /\ [](state = "live" /\ debug => array.datum_slice = deconstruct(array.raw))
    /\ C12_CacheWrittenOnce

\* A debug build over tid [NULL, x]: the second next() holds pointer 6 where
\* the cache holds 0 for slot 1, and aborts.
C12_Witness ==
    /\ debug
    /\ oid = "tid"
    /\ state = "panicked"
    /\ last.op = "ArrayIterator_next"
    /\ it.curr = 1
    /\ Len(array.datum_slice) = 2
    /\ it.ptr # array.datum_slice[2]
    /\ Len(it.out) = 1

-----------------------------------------------------------------------------
\* C13: the view is immutable and iterators are restartable.  No len,
\* is_empty, get, iter, iter_deny_null or next() step changes the view (its
\* presence model, layout, buffer and length); every iter() and every
\* successful iter_deny_null() gives a cursor at index 0 and the data start
\* with nothing yielded, whatever earlier iterators have done; and a step
\* on one iterator, or any get, len or is_empty, leaves the other iterators'
\* cursors as they were.
Fresh(x) ==
    /\ x.alive
    /\ x.curr = 0
    /\ x.ptr = data_ptr(array.raw)
    /\ x.out = <<>>
    /\ ~x.ended

C13_StepKeepsView ==
    /\ state # "start" =>
          /\ array' = array
          /\ len(array') = len(array)
    /\ last'.op = "iter" => Fresh(it') /\ tit' = tit
    /\ (last'.op = "iter_deny_null" /\ state' = "live") => Fresh(tit') /\ it' = it
    /\ last'.op = "ArrayIterator_next" => tit' = tit
    /\ last'.op = "ArrayTypedIterator_next" => it' = it
    /\ last'.op \in {"get", "len", "is_empty"} => it' = it /\ tit' = tit

C13_ImmutableRestartable == [][C13_StepKeepsView]_vars

\* iter() called after the typed iterator has yielded two items: the new
\* cursor is at the start and the typed iterator still stands at 2.
C13_Witness ==
    /\ state = "live"
    /\ last.op = "iter"
    /\ Fresh(it)
    /\ tit.alive
    /\ tit.curr = 2
    /\ Len(vec) = 3

-----------------------------------------------------------------------------
\* C14: NullKind::get(index).  On a bitmap of length L it is None iff
\* index >= L and otherwise Some(b) with b true iff the stored bit is 0; on
\* the all-present model with count n it is Some(false) iff index < n and
\* None otherwise.  The array's presence model answers so for every index,
\* and a get() that did not abort returns None, or Some(None), exactly
\* where the stored bits say so.
StoredBits == array.raw.nulls[1]

PresenceAt(index) ==
    IF array.raw.nulls # None
    THEN IF index >= Len(StoredBits) THEN None ELSE Some(StoredBits[index + 1] = FALSE)
    ELSE IF index < array.raw.nelems THEN Some(FALSE) ELSE None

C14_NullKindGet ==
    state \in {"live", "moved"} =>
        /\ \A index \in 0..(MaxLen + 1) :
              NullKind_get(array.null_slice, index) = PresenceAt(index)
        /\ (last.op = "get" /\ state = "live") =>
              /\ last.ret = None <=> PresenceAt(last.index) = None
              /\ last.ret = Some(None) <=> PresenceAt(last.index) = Some(TRUE)

\* A bitmap of length 3 with a clear bit between two set bits, and get(1)
\* answering Some(None).
C14_Witness ==
    /\ state = "live"
    /\ array.raw.nulls # None
    /\ Len(StoredBits) = 3
    /\ StoredBits[1] /\ ~StoredBits[2] /\ StoredBits[3]
    /\ last.op = "get"
    /\ last.index = 1
    /\ last.ret = Some(None)
    /\ NullKind_get(array.null_slice, 3) = None

\* C15: NullKind::any is true iff some index has get(index) = Some(true).
\* A bitmap with every bit set, or an empty bitmap, reports no nulls and
\* iter_deny_null() succeeds on it; the all-present model never reports a
\* null.
SomeNullIndex == \E i \in 0..MaxLen : NullKind_get(array.null_slice, i) = Some(TRUE)

C15_AnyAgreesWithGet ==
    state \in {"live", "moved"} =>
        /\ NullKind_any(array.null_slice) <=> SomeNullIndex
        /\ array.raw.nulls = None => ~NullKind_any(array.null_slice)
        /\ (array.raw.nulls # None /\ \A i \in DOMAIN StoredBits : StoredBits[i]) =>
              ~NullKind_any(array.null_slice)
        /\ (last.op = "iter_deny_null" /\ ~SomeNullIndex) => (state = "live" /\ tit.alive)

\* iter_deny_null() succeeded on a bitmap of two set bits.
C15_Witness ==
    /\ state = "live"
    /\ last.op = "iter_deny_null"
    /\ array.raw.nulls # None
    /\ StoredBits = <<TRUE, TRUE>>
    /\ tit.alive
    /\ tit.curr = 0

-----------------------------------------------------------------------------
\* C18: one hop over a NUL-terminated element advances the pointer by
\* strlen + 2, strlen being the number of bytes before the first zero byte
\* at or after the pointer; one hop over a Fixed(n) element advances it by
\* exactly n, whatever the buffer holds.
AllHops == {last.hops[j] : j \in DOMAIN last.hops}
             \cup UNION {{x.hops[j] : j \in DOMAIN x.hops} : x \in {it, tit, oit}}

ZeroAtOrAfter(p) == \E q \in (p + 1)..Len(array.raw.data) : array.raw.data[q] = 0

BytesBeforeZero(p) ==
    CHOOSE n \in 0..Len(array.raw.data) :
        /\ p + n + 1 <= Len(array.raw.data)
        /\ array.raw.data[p + n + 1] = 0
        /\ \A m \in 1..n : array.raw.data[p + m] # 0

C18_CStrAndFixedHops ==
    \A h \in AllHops :
        /\ (array.elem_layout.size.kind = "CStr" /\ h.from >= 0 /\ ZeroAtOrAfter(h.from)) =>
              h.to - h.from = BytesBeforeZero(h.from) + 2
        /\ array.elem_layout.size.kind = "Fixed" =>
              h.to - h.from = array.elem_layout.size.n

\* A typed iterator over two C strings, the first of one character: its
\* first hop goes from 0 to 3.
C18_Witness ==
    /\ oid = "cstring"
    /\ Len(vec) = 2
    /\ tit.alive
    /\ tit.hops # <<>>
    /\ tit.hops[1].from = 0
    /\ tit.hops[1].to = 3
    /\ array.raw.data[1] # 0
    /\ array.raw.data[2] = 0

-----------------------------------------------------------------------------
\* C19: every decode of a present slot, in get and in the three iterators,
\* reads at the start of an element inside the data buffer: the pointer
\* given to the decode step is strictly below the buffer's end pointer.
ElementStartInBuffer(p) ==
    /\ p >= data_ptr(array.raw)
    /\ p < end_ptr(array.raw)
    /\ \E k \in 0..(Len(vec) - 1) : ~NullSlot(k) /\ ElemStart(k) = p

C19_DecodeInsideBuffer ==
    /\ (last.op \in NextOps \cup {"get"} /\ last.at # 0 - 1) =>
          ElementStartInBuffer(last.at)
    /\ \A x \in {it, tit, oit} :
          \A k \in DOMAIN x.ats : x.ats[k] # 0 - 1 => ElementStartInBuffer(x.ats[k])

\* C20: indexing and iteration agree.  For every index i < len() the i-th
\* item of iter(), and of into_iter(), equals the inner value of get(i) and
\* was decoded at the pointer get(i)'s walk reaches.
C20_IterAgreesWithGet ==
    \A x \in {it, oit} :
        \A k \in 1..Len(x.out) :
            \A r \in get(array, k - 1, debug) :
                ~r.panic => /\ r.ret = Some(x.out[k])
                            /\ r.at = x.ats[k]

-----------------------------------------------------------------------------
(* The hop over one varlena, for every total length and alignment *)

\* The largest total length of a varlena tried.
MaxVarsize == 16

\* typalign: char, short, int, double.
Aligns == {1, 2, 4, 8}

\* A varlena of total length n: a 1-byte header (2n + 1) or a 4-byte header
\* (4n, little-endian), then the payload.
VarlenaBytes(n, short) ==
    IF short THEN <<2 * n + 1>> \o Zeros(n - 1)
    ELSE LeBytes(4 * n, 4) \o Zeros(n - 4)

InitHop ==
    /\ formatter = <<>>
    /\ debug \in BOOLEAN
    /\ oid = "text"
    /\ vec = <<>>
    /\ array = NoArray
    /\ state = "start"
    /\ it = NoIter
    /\ tit = NoIter
    /\ oit = NoIter
    /\ last = Op("none", 0, None, <<>>, <<>>, 0 - 1)

\* An array of one varlena of total length n with elements aligned to
\* align; the buffer ends on the next alignment boundary at or after the
\* element.  vec keeps n.
VarlenaArray(n, align, short) ==
    /\ state = "start"
    /\ ~short => n >= 4
    /\ LET bytes == VarlenaBytes(n, short)
           data == bytes \o Zeros((align - (n % align)) % align)
       IN  array' = [raw |-> [oid |-> oid, nelems |-> 1, nulls |-> None, data |-> data],
                     null_slice |-> Strict(1),
                     elem_layout |-> [pass |-> "Ref", size |-> Varlena, align |-> align],
                     datum_slice |-> IF debug THEN <<0>> ELSE <<>>]
    /\ vec' = <<Some(n)>>
    /\ state' = "live"
    /\ last' = Op("deconstruct_from", 0, None, <<>>, <<>>, 0 - 1)
    /\ UNCHANGED <<formatter, debug, oid, it, tit, oit>>

\* one_hop_this_time from the start of the data.
Hop ==
    /\ state = "live"
    /\ last.op # "one_hop_this_time"
    /\ LET h == one_hop_this_time(array, data_ptr(array.raw), debug)
       IN  /\ state' = IF h.fault = "none" THEN "live" ELSE "panicked"
           /\ last' = Op("one_hop_this_time", 0, Some(h.ptr), <<>>,
                         <<[slot |-> 0, from |-> data_ptr(array.raw), to |-> h.ptr]>>,
                         0 - 1)
    /\ UNCHANGED <<formatter, debug, oid, vec, array, it, tit, oit>>

NextHop ==
    \/ \E n \in 1..MaxVarsize, align \in Aligns, short \in BOOLEAN :
          VarlenaArray(n, align, short)
    \/ Hop

SpecHop == InitHop /\ [][NextHop]_vars

\* C16: the hop over a varlena of total length total_len >= 1 at a
\* power-of-two alignment is total_len + ((alignment - (total_len mod
\* alignment)) mod alignment): a multiple of the alignment, at least
\* total_len, and less than one alignment unit more.
C16_VarlenaHopRoundsUp ==
    last.op = "one_hop_this_time" =>
        LET total_len == vec[1][1]
            alignment == array.elem_layout.align
            offset == last.hops[1].to - last.hops[1].from
        IN  /\ state = "live"
            /\ offset = total_len + ((alignment - (total_len % alignment)) % alignment)
            /\ offset % alignment = 0
            /\ offset >= total_len
            /\ offset - total_len < alignment

\* A varlena of 13 bytes behind a 4-byte header at alignment 8: the hop is 16.
C16_Witness ==
    /\ last.op = "one_hop_this_time"
    /\ vec = <<Some(13)>>
    /\ array.elem_layout.align = 8
    /\ array.raw.data[1] = 52
    /\ last.hops[1].to = 16

-----------------------------------------------------------------------------
(* Decoding fixed-size pass-by-value elements of every size *)

\* The byte values tried.
ByteVals == {0, 1, 2}

InitBytes ==
    /\ formatter = <<>>
    /\ debug = FALSE
    /\ oid = "int4"
    /\ vec = <<>>
    /\ array = NoArray
    /\ state = "start"
    /\ it = NoIter
    /\ tit = NoIter
    /\ oit = NoIter
    /\ last = Op("none", 0, None, <<>>, <<>>, 0 - 1)

\* An array without nulls of two pass-by-value elements of size bytes,
\* 1 <= size <= 8: any element, then a second element whose first byte is f.
FixedArray ==
    /\ state = "start"
    /\ \E size \in 1..USIZE_BYTE_LEN :
          \E elem \in [1..size -> ByteVals], f \in ByteVals :
             array' = [raw |-> [oid |-> oid, nelems |-> 2, nulls |-> None,
                                data |-> elem \o <<f>> \o Zeros(size - 1)],
                       null_slice |-> Strict(2),
                       elem_layout |-> [pass |-> "Value", size |-> Fixed(size),
                                        align |-> 1],
                       datum_slice |-> <<>>]
    /\ state' = "live"
    /\ last' = Op("deconstruct_from", 0, None, <<>>, <<>>, 0 - 1)
    /\ UNCHANGED <<formatter, debug, oid, vec, it, tit, oit>>

\* bytes_to_datum on slot index, at the pointer index hops from the start.
Decode(index) ==
    /\ state = "live"
    /\ last.op # "bytes_to_datum"
    /\ LET size == array.elem_layout.size.n
           ptr == data_ptr(array.raw) + index * size
       IN  last' = Op("bytes_to_datum", index, Some(bytes_to_datum(array, ptr, size)),
                      <<>>, <<>>, ptr)
    /\ UNCHANGED <<formatter, debug, oid, vec, array, state, it, tit, oit>>

NextBytes ==
    \/ FixedArray
    \/ \E index \in {0, 1} : Decode(index)

SpecBytes == InitBytes /\ [][NextBytes]_vars

\* C17: decoding a present pass-by-value Fixed(size) element, 1 <= size <=
\* 8, gives a word whose low-order size bytes are the element's bytes, the
\* first byte in memory the least significant, and whose high-order bytes
\* are zero, whatever bytes follow the element in the buffer.
C17_WordIsZeroExtendedElement ==
    last.op = "bytes_to_datum" =>
        LET size == array.elem_layout.size.n
            word == last.ret[1]
            elem == SubSeq(array.raw.data, last.at + 1, last.at + size)
        IN  /\ Len(word) = USIZE_BYTE_LEN
            /\ \A i \in 1..size : word[USIZE_BYTE_LEN + 1 - i] = elem[i]
            /\ \A j \in 1..(USIZE_BYTE_LEN - size) : word[j] = 0

\* Fixed(4) over [1,0,0,0, 2,0,0,0]: slot 1 decodes to the word 2.
C17_Witness ==
    /\ last.op = "bytes_to_datum"
    /\ array.elem_layout.size = Fixed(4)
    /\ array.raw.data = <<1, 0, 0, 0, 2, 0, 0, 0>>
    /\ last.index = 1
    /\ last.ret = Some(<<0, 0, 0, 0, 0, 0, 0, 2>>)

-----------------------------------------------------------------------------
(* The conversions of an array datum to host vectors *)

\* A datum given to from_polymorphic_datum: the is_null flag and the
\* pointer, None for a null pointer and Some(raw array) otherwise.
Datum(is_null, ptr) == [is_null |-> is_null, ptr |-> ptr]

\* Array::from_polymorphic_datum: [some, panic, array]; some is FALSE for
\* None, in which case no view was constructed.
Array_from_polymorphic_datum(datum, dbg) ==
    IF datum.is_null
    THEN [some |-> FALSE, panic |-> FALSE, array |-> NoArray]
    ELSE IF datum.ptr = None
    THEN [some |-> FALSE, panic |-> FALSE, array |-> NoArray]
    ELSE LET r == deconstruct_from(datum.ptr[1], dbg)
         IN  [some |-> ~r.panic, panic |-> r.panic, array |-> r.array]

\* collect() on an ArrayTypedIterator i over a: the set of [i, panic], i the
\* iterator when next() returned None or aborted.
RECURSIVE collect_typed(_, _, _)
collect_typed(a, i, dbg) ==
    UNION {IF r.panic \/ r.ret = None
           THEN {[i |-> Advance(i, r, r.ret), panic |-> r.panic]}
           ELSE collect_typed(a, Advance(i, r, r.ret), dbg) :
           r \in ArrayTypedIterator_next(a, i.curr, i.ptr, dbg)}

\* collect() on an ArrayIterator.
RECURSIVE collect_iter(_, _, _)
collect_iter(a, i, dbg) ==
    UNION {IF r.panic \/ r.ret = None
           THEN {[i |-> Advance(i, r, None), panic |-> r.panic]}
           ELSE collect_iter(a, Advance(i, r, r.ret[1]), dbg) :
           r \in ArrayIterator_next(a, i.curr, i.ptr, dbg)}

\* impl FromDatum for Vec<T>: the set of [ret, panic, array, i].  ret is
\* None or Some(the vector of bare values).
Vec_from_polymorphic_datum(datum, dbg) ==
    IF datum.is_null
    THEN {[ret |-> None, panic |-> FALSE, array |-> NoArray, i |-> NoIter]}
    ELSE LET a == Array_from_polymorphic_datum(datum, dbg)
         IN  IF ~a.some
             THEN {[ret |-> None, panic |-> a.panic, array |-> a.array, i |-> NoIter]}
             ELSE IF NullKind_any(a.array.null_slice)
             THEN {[ret |-> None, panic |-> TRUE, array |-> a.array, i |-> NoIter]}
             ELSE {[ret |-> IF c.panic THEN None
                            ELSE Some([j \in 1..Len(c.i.out) |-> c.i.out[j][1]]),
                    panic |-> c.panic, array |-> a.array, i |-> c.i] :
                   c \in collect_typed(a.array, NewIter(data_ptr(a.array.raw)), dbg)}

\* impl FromDatum for Vec<Option<T>>
VecOption_from_polymorphic_datum(datum, dbg) ==
    LET a == Array_from_polymorphic_datum(datum, dbg)
    IN  IF ~a.some
        THEN {[ret |-> None, panic |-> a.panic, array |-> a.array, i |-> NoIter]}
        ELSE {[ret |-> IF c.panic THEN None ELSE Some(c.i.out),
               panic |-> c.panic, array |-> a.array, i |-> c.i] :
              c \in collect_iter(a.array, NewIter(data_ptr(a.array.raw)), dbg)}

\* The datums over the host vector v: a null pointer, or the array made of v.
Datums(v) ==
    {Datum(n, None) : n \in BOOLEAN}
        \cup {Datum(n, Some(into_datum(oid, v, b))) : n, b \in BOOLEAN}

\* Vec::<T>::from_polymorphic_datum(datum, is_null, oid).  last keeps the
\* datum: index is 1 when is_null was set, at is -1 for a null pointer.
VecFromDatum ==
    /\ state = "start"
    /\ \E v \in Vecs :
          \E datum \in Datums(v) :
             \E r \in Vec_from_polymorphic_datum(datum, debug) :
                /\ vec' = IF datum.ptr = None THEN <<>> ELSE v
                /\ array' = r.array
                /\ tit' = r.i
                /\ state' = IF r.panic THEN "panicked" ELSE "done"
                /\ last' = Op("Vec_from_datum", IF datum.is_null THEN 1 ELSE 0, r.ret,
                              <<>>, <<>>, IF datum.ptr = None THEN 0 - 1 ELSE 0)
    /\ UNCHANGED <<formatter, debug, oid, it, oit>>

\* Vec::<Option<T>>::from_polymorphic_datum(datum, is_null, oid)
VecOptionFromDatum ==
    /\ state = "start"
    /\ \E v \in Vecs :
          \E datum \in Datums(v) :
             \E r \in VecOption_from_polymorphic_datum(datum, debug) :
                /\ vec' = IF datum.ptr = None THEN <<>> ELSE v
                /\ array' = r.array
                /\ it' = r.i
                /\ state' = IF r.panic THEN "panicked" ELSE "done"
                /\ last' = Op("VecOption_from_datum", IF datum.is_null THEN 1 ELSE 0,
                              r.ret, <<>>, <<>>, IF datum.ptr = None THEN 0 - 1 ELSE 0)
    /\ UNCHANGED <<formatter, debug, oid, tit, oit>>

NextVec ==
    \/ VecFromDatum
    \/ VecOptionFromDatum

SpecVec == Init /\ [][NextVec]_vars

-----------------------------------------------------------------------------
\* The cursors and yields ArrayIterator can stand at after n next() calls
\* that each yielded an item, from a fresh iter() on the view.
RECURSIVE IterRuns(_)
IterRuns(n) ==
    IF n = 0
    THEN {[curr |-> 0, ptr |-> data_ptr(array.raw), out |-> <<>>, ats |-> <<>>]}
    ELSE UNION {{[curr |-> r.curr, ptr |-> r.ptr,
                  out |-> Append(c.out, r.ret[1]),
                  ats |-> Append(c.ats, IF r.decoded THEN c.ptr ELSE 0 - 1)] :
                 r \in {q \in ArrayIterator_next(array, c.curr, c.ptr, debug) :
                           ~q.panic /\ q.ret # None}} :
                c \in IterRuns(n - 1)}

C21_TypedAgrees ==
    tit.alive =>
        /\ IterRuns(Len(tit.out)) # {}
        /\ \A c \in IterRuns(Len(tit.out)) :
              \A j \in 1..Len(tit.out) :
                  c.out[j] = Some(tit.out[j][1]) /\ c.ats[j] = tit.ats[j]

-----------------------------------------------------------------------------
\* The numbers of items ArrayIntoIterator can still yield from the cursor
\* (curr, ptr): next() calls until one returns None or aborts.
RECURSIVE IntoRemaining(_, _)
IntoRemaining(curr, ptr) ==
    UNION {IF r.panic \/ r.ret = None
           THEN {0}
           ELSE {1 + n : n \in IntoRemaining(r.curr, r.ptr)} :
           r \in ArrayIntoIterator_next(array, curr, ptr, debug)}

\* C22: an owning iterator's index never exceeds len(); count() is the
\* number of items next() would still yield; size_hint's upper bound is
\* that number, and its lower bound is that number on the all-present
\* model and 0 on a bitmap-backed array.
C22_CountAndSizeHint ==
    /\ state \in {"moved", "panicked"} => oit.curr <= len(array)
    /\ last.op = "count" =>
          \A n \in IntoRemaining(oit.curr, oit.ptr) : last.ret = Some(n)
    /\ last.op = "size_hint" =>
          \A n \in IntoRemaining(oit.curr, oit.ptr) :
              /\ last.ret[1][2] = Some(n)
              /\ last.ret[1][1] = IF array.raw.nulls = None THEN n ELSE 0

\* The arithmetic of C22 alone: len() - curr and the two bounds.
C22_Arithmetic ==
    /\ state \in {"moved", "panicked"} => oit.curr <= len(array)
    /\ last.op = "count" => last.ret = Some(len(array) - oit.curr)
    /\ last.op = "size_hint" =>
          /\ last.ret[1][2] = Some(len(array) - oit.curr)
          /\ last.ret[1][1] = IF array.raw.nulls = None THEN len(array) - oit.curr ELSE 0

-----------------------------------------------------------------------------
\* C23: converting an array datum to host vectors.  A SQL-NULL datum
\* (is_null set, or a null pointer) gives None and no view is constructed;
\* a non-null array with a null element makes the Vec<T> conversion fail
\* before any element is collected; the Vec<Option<T>> conversion never
\* fails because of nulls and returns len() items; a non-null array
\* without nulls gives a Vec<T> of its len() elements in order.
SqlNull == last.index = 1 \/ last.at = 0 - 1

\* The element type has a layout a view can be constructed over.
Constructible ==
    ~deconstruct_from([oid |-> oid, nelems |-> 0, nulls |-> None, data |-> <<>>],
                      debug).panic

C23_NullDatum ==
    (last.op \in {"Vec_from_datum", "VecOption_from_datum"} /\ SqlNull) =>
        /\ state = "done"
        /\ last.ret = None
        /\ array = NoArray
        /\ it = NoIter /\ tit = NoIter

C23_VecDeniesNulls ==
    (last.op = "Vec_from_datum" /\ ~SqlNull /\ Constructible /\ NullCount > 0) =>
        /\ state = "panicked"
        /\ last.ret = None
        /\ tit = NoIter

C23_VecOptionReturnsLen ==
    (last.op = "VecOption_from_datum" /\ ~SqlNull /\ Constructible) =>
        /\ state = "done"
        /\ last.ret # None
        /\ Len(last.ret[1]) = len(array)

C23_VecInOrder ==
    (last.op = "Vec_from_datum" /\ ~SqlNull /\ Constructible /\ NullCount = 0) =>
        /\ state = "done"
        /\ last.ret # None
        /\ Len(last.ret[1]) = len(array)
        /\ len(array) = Len(vec)
        /\ \A j \in 1..Len(vec) : last.ret[1][j] = vec[j][1]

C23_VecConversions ==
    /\ C23_NullDatum
    /\ C23_VecDeniesNulls
    /\ C23_VecOptionReturnsLen
    /\ C23_VecInOrder

\* The parts of C23 other than the Vec<Option<T>> conversion of an array.
C23_OtherParts == C23_NullDatum /\ C23_VecDeniesNulls /\ C23_VecInOrder

-----------------------------------------------------------------------------
(* ReturnVariantError and its Display text *)

ReturnVariantError ==
    {"NestedSetOf", "NestedTable", "SetOfContainingTable", "TableContainingSetOf",
     "SetOfInArray", "TableInArray", "BareU8"}

\* impl Display for ReturnVariantError: the text written, word by word.
Display_fmt(self) ==
    CASE self = "NestedSetOf" ->
            <<"Nested", "SetReturningFunctionIterator", "in", "return", "type">>
      [] self = "NestedTable" ->
            <<"Nested", "TableIterator", "in", "return", "type">>
      [] self = "SetOfContainingTable" ->
            <<"SetReturningFunctionIterator", "containing", "TableIterator", "in",
              "return", "type">>
      [] self = "TableContainingSetOf" ->
            <<"TableIterator", "containing", "SetReturningFunctionIterator", "in",
              "return", "type">>
      [] self = "SetOfInArray" ->
            <<"TableIterator", "inside", "Array", "is", "not", "valid">>
      [] self = "TableInArray" ->
            <<"TableIterator", "inside", "Array", "is", "not", "valid">>
      [] self = "BareU8" ->
            <<"Canot", "use", "bare", "u8">>

\* The number of errors formatted on one Formatter.
MaxErrors == 3

InitDisplay ==
    /\ formatter = <<>>
    /\ debug = FALSE
    /\ oid = "int4"
    /\ vec = <<>>
    /\ array = NoArray
    /\ state = "start"
    /\ it = NoIter
    /\ tit = NoIter
    /\ oit = NoIter
    /\ last = Op("none", 0, None, <<>>, <<>>, 0 - 1)

\* Display::fmt(&self, f): write!(f, ...) of the variant's text.
Fmt ==
    /\ Len(formatter) < MaxErrors
    /\ \E self \in ReturnVariantError :
          formatter' = Append(formatter, [self |-> self, out |-> Display_fmt(self)])
    /\ UNCHANGED <<debug, oid, vec, array, state, it, tit, oit, last>>

NextDisplay == Fmt

SpecDisplay == InitDisplay /\ [][NextDisplay]_vars

Names(text, word) == \E i \in DOMAIN text : text[i] = word

\* C24: the Display text identifies the variant.  Two distinct variants
\* are never written as the same text, and the text of SetOfInArray names
\* the set-returning iterator and not the table iterator.
C24_DisplayIdentifiesVariant ==
    /\ \A i, j \in DOMAIN formatter :
          formatter[i].self # formatter[j].self => formatter[i].out # formatter[j].out
    /\ \A i \in DOMAIN formatter :
          formatter[i].self = "SetOfInArray" =>
              /\ Names(formatter[i].out, "SetReturningFunctionIterator")
              /\ ~Names(formatter[i].out, "TableIterator")

\* The variants other than SetOfInArray are told apart by their text.
C24_OtherVariantsDistinct ==
    \A i, j \in DOMAIN formatter :
        (/\ formatter[i].self # formatter[j].self
         /\ formatter[i].self # "SetOfInArray"
         /\ formatter[j].self # "SetOfInArray")
            => formatter[i].out # formatter[j].out

====
